---- MODULE Spec2Model ----
(***************************************************************************)
(* LinkedOut, src/linkedout/pdf_parser.py: the line sanitizer, the         *)
(* title/company splitter and the per-page record segmenter of             *)
(* extract_from_pdf.                                                       *)
(*                                                                         *)
(* A Python str is a sequence of one-character strings; a line list is a   *)
(* sequence of such sequences; a row is the 4-tuple                        *)
(* <<name, title, company, date_connected>> the code appends.              *)
(***************************************************************************)
EXTENDS Integers, Sequences, FiniteSets, TLC

\* -------------------------------------------------------------------------
\* Characters and the regular-expression classes the patterns use
\* -------------------------------------------------------------------------

\* \s and str.strip(): the whitespace that can occur inside one line
WS == {" ", "\t"}

\* \d
Digit == {"0", "1", "2", "3", "4", "5", "6", "7", "8", "9"}

UpperCase ==
  <<"A", "B", "C", "D", "E", "F", "G", "H", "I", "J", "K", "L", "M",
    "N", "O", "P", "Q", "R", "S", "T", "U", "V", "W", "X", "Y", "Z">>

LowerCase ==
  <<"a", "b", "c", "d", "e", "f", "g", "h", "i", "j", "k", "l", "m",
    "n", "o", "p", "q", "r", "s", "t", "u", "v", "w", "x", "y", "z">>

\* case folding of re.I
Lower(c) ==
  IF \E k \in 1..26 : UpperCase[k] = c
  THEN LowerCase[CHOOSE k \in 1..26 : UpperCase[k] = c]
  ELSE c

\* \w, which decides the \b of the 'Message' pattern
IsWord(c) ==
  \/ c \in Digit
  \/ c = "_"
  \/ \E k \in 1..26 : UpperCase[k] = c \/ LowerCase[k] = c

\* the character class [\d/,: ] of FOOTER_PATTERN
FooterClass == Digit \cup {"/", ",", ":", " "}

\* -------------------------------------------------------------------------
\* Matching primitives
\* -------------------------------------------------------------------------

\* the literal lit stands in s at position p (case-sensitive)
LitAt(s, p, lit) ==
  /\ p >= 1
  /\ p + Len(lit) - 1 <= Len(s)
  /\ \A k \in 1..Len(lit) : s[p + k - 1] = lit[k]

\* the literal lit stands in s at position p under re.I
LitAtCI(s, p, lit) ==
  /\ p >= 1
  /\ p + Len(lit) - 1 <= Len(s)
  /\ \A k \in 1..Len(lit) : Lower(s[p + k - 1]) = Lower(lit[k])

\* where a greedy run of characters of class C that starts at p stops:
\* the first position >= p holding a character outside C
RunEnd(s, p, C) ==
  IF \A k \in p..Len(s) : s[k] \in C
  THEN Len(s) + 1
  ELSE CHOOSE k \in p..Len(s) : s[k] \notin C /\ \A j \in p..(k - 1) : s[j] \in C

\* str.strip(chars)
StripChars(s, C) ==
  IF \A k \in 1..Len(s) : s[k] \in C
  THEN << >>
  ELSE LET a == CHOOSE k \in 1..Len(s) : s[k] \notin C /\ \A j \in 1..(k - 1) : s[j] \in C
           b == CHOOSE k \in 1..Len(s) : s[k] \notin C /\ \A j \in (k + 1)..Len(s) : s[j] \in C
       IN  SubSeq(s, a, b)

\* str.strip()
Strip(s) == StripChars(s, WS)

\* -------------------------------------------------------------------------
\* The pattern table
\* -------------------------------------------------------------------------

L_connections == <<"c", "o", "n", "n", "e", "c", "t", "i", "o", "n", "s">>
L_linkedin == <<"l", "i", "n", "k", "e", "d", "i", "n">>
L_sort_by == <<"s", "o", "r", "t", " ", "b", "y", ":">>
L_of == <<"o", "f">>
L_am == <<"a", "m">>
L_pm == <<"p", "m">>
L_Connected_on == <<"C", "o", "n", "n", "e", "c", "t", "e", "d", " ", "o", "n">>
L_Message == <<"M", "e", "s", "s", "a", "g", "e">>

\* ^Connections\s+\|\s+LinkedIn   (re.I)
HeaderBanner(s) ==
  /\ LitAtCI(s, 1, L_connections)
  /\ LET a == Len(L_connections) + 1
         b == RunEnd(s, a, WS)
     IN  /\ b > a
         /\ LitAt(s, b, <<"|">>)
         /\ LET d == RunEnd(s, b + 1, WS)
            IN  d > b + 1 /\ LitAtCI(s, d, L_linkedin)

\* ^\d+\s+connections$   (re.I)
HeaderCount(s) ==
  LET a == RunEnd(s, 1, Digit)
      b == RunEnd(s, a, WS)
  IN  /\ a > 1
      /\ b > a
      /\ LitAtCI(s, b, L_connections)
      /\ b + Len(L_connections) - 1 = Len(s)

\* ^Sort by:   (re.I)
HeaderSort(s) == LitAtCI(s, 1, L_sort_by)

\* HEADER_PATTERNS[n].search(s)
HEADER_PATTERNS(n, s) ==
  CASE n = 0 -> HeaderBanner(s)
    [] n = 1 -> HeaderCount(s)
    [] n = 2 -> HeaderSort(s)

\* ^\d+\s+of\s+\d+\s+[\d/,: ]+(AM|PM)$   (re.I).  \s+ and [\d/,: ]+ share the
\* space, so the boundary k between them is any that makes the rest match.
FOOTER_PATTERN(s) ==
  LET n == Len(s)
      a == RunEnd(s, 1, Digit)
      b == RunEnd(s, a, WS)
      c == b + Len(L_of)
      d == RunEnd(s, c, WS)
      e == RunEnd(s, d, Digit)
  IN  /\ a > 1
      /\ b > a
      /\ LitAtCI(s, b, L_of)
      /\ d > c
      /\ e > d
      /\ \E k \in (e + 1)..(n - 2) :
           /\ \A j \in e..(k - 1) : s[j] \in WS
           /\ \A j \in k..(n - 2) : s[j] \in FooterClass
      /\ (LitAtCI(s, n - 1, L_am) \/ LitAtCI(s, n - 1, L_pm))

\* CONNECTED_ON.match(s):  ^Connected on\s+   (re.I)
CONNECTED_ON(s) ==
  /\ LitAtCI(s, 1, L_Connected_on)
  /\ RunEnd(s, Len(L_Connected_on) + 1, WS) > Len(L_Connected_on) + 1

\* -------------------------------------------------------------------------
\* Line sanitizer
\* -------------------------------------------------------------------------

\* \bMessage\b matches at position p of s
MessageAt(s, p) ==
  /\ LitAt(s, p, L_Message)
  /\ (p = 1 \/ ~IsWord(s[p - 1]))
  /\ (p + Len(L_Message) > Len(s) \/ ~IsWord(s[p + Len(L_Message)]))

RECURSIVE SubMessageFrom(_, _)
SubMessageFrom(s, p) ==
  IF p > Len(s) THEN << >>
  ELSE IF MessageAt(s, p) THEN SubMessageFrom(s, p + Len(L_Message))
  ELSE <<s[p]>> \o SubMessageFrom(s, p + 1)

\* re.sub(r"\bMessage\b", "", s)
SubMessage(s) == SubMessageFrom(s, 1)

\* one turn of the sanitizer's loop: the lines (none or one) that the raw
\* line contributes to cleaned
CleanLine(line) ==
  LET s == Strip(line)
  IN  IF s = << >> THEN << >>
      ELSE IF \E n \in 0..2 : HEADER_PATTERNS(n, s) THEN << >>
      ELSE IF FOOTER_PATTERN(s) THEN << >>
      ELSE LET t == Strip(SubMessage(s))
           IN  IF t = << >> THEN << >> ELSE <<t>>

RECURSIVE drop_header_footer_and_message(_)
drop_header_footer_and_message(raw_lines) ==
  IF raw_lines = << >> THEN << >>
  ELSE CleanLine(Head(raw_lines)) \o drop_header_footer_and_message(Tail(raw_lines))

\* -------------------------------------------------------------------------
\* Title/company splitter
\* -------------------------------------------------------------------------

RECURSIVE CollapseFrom(_, _)
CollapseFrom(s, p) ==
  IF p > Len(s) THEN << >>
  ELSE IF s[p] \in WS THEN <<" ">> \o CollapseFrom(s, RunEnd(s, p, WS))
  ELSE <<s[p]>> \o CollapseFrom(s, p + 1)

\* re.sub(r"\s+", " ", s)
CollapseWS(s) == CollapseFrom(s, 1)

SEP_AT_SIGN == <<" ", "@", " ">>
SEP_AT_WORD == <<" ", "a", "t", " ">>

RECURSIVE FindLastFrom(_, _, _)
FindLastFrom(s, sep, p) ==
  IF p < 1 THEN 0
  ELSE IF LitAt(s, p, sep) THEN p
  ELSE FindLastFrom(s, sep, p - 1)

\* Find as str.rfind would have it: the rightmost occurrence
Find_rightmost(s, sep) == FindLastFrom(s, sep, Len(s) - Len(sep) + 1)

RECURSIVE FindFrom(_, _, _)
FindFrom(s, sep, p) ==
  IF p + Len(sep) - 1 > Len(s) THEN 0
  ELSE IF LitAt(s, p, sep) THEN p
  ELSE FindFrom(s, sep, p + 1)

\* str.find(sep) + 1: the position of the leftmost occurrence, 0 when none
Find(s, sep) ==
  FindFrom(s, sep, 1)

\* s.split(sep, 1), for an s that contains sep
SplitOnce(s, sep) ==
  LET k == Find(s, sep)
  IN  <<SubSeq(s, 1, k - 1), SubSeq(s, k + Len(sep), Len(s))>>

\* x.strip().strip("|").strip()
TrimField(x) == Strip(StripChars(Strip(x), {"|"}))

\* split_title_company whose last return gives back the argument, trimmed,
\* instead of the normalized tc
split_title_company_raw_fallback(title_company) ==
  LET tc == Strip(CollapseWS(title_company))
  IN  IF tc = << >> THEN << << >>, << >> >>
      ELSE IF Find(tc, SEP_AT_SIGN) > 0
        THEN LET tcs == SplitOnce(tc, SEP_AT_SIGN)
             IN  <<TrimField(tcs[1]), TrimField(tcs[2])>>
      ELSE IF Find(tc, SEP_AT_WORD) > 0
        THEN LET tcs == SplitOnce(tc, SEP_AT_WORD)
             IN  <<TrimField(tcs[1]), TrimField(tcs[2])>>
      ELSE <<Strip(title_company), << >> >>

split_title_company(title_company) ==
  LET tc == Strip(CollapseWS(title_company))
  IN  IF tc = << >> THEN << << >>, << >> >>
      ELSE IF Find(tc, SEP_AT_SIGN) > 0
        THEN LET tcs == SplitOnce(tc, SEP_AT_SIGN)
             IN  <<TrimField(tcs[1]), TrimField(tcs[2])>>
      ELSE IF Find(tc, SEP_AT_WORD) > 0
        THEN LET tcs == SplitOnce(tc, SEP_AT_WORD)
             IN  <<TrimField(tcs[1]), TrimField(tcs[2])>>
      ELSE <<tc, << >> >>

RECURSIVE Join(_)
\* " ".join(buf)
Join(buf) ==
  IF buf = << >> THEN << >>
  ELSE IF Len(buf) = 1 THEN buf[1]
  ELSE buf[1] \o <<" ">> \o Join(Tail(buf))

\* re.sub(r"^Connected on\s+", "", line): no re.I on this call
SubConnectedOn(line) ==
  IF LitAt(line, 1, L_Connected_on)
     /\ RunEnd(line, Len(L_Connected_on) + 1, WS) > Len(L_Connected_on) + 1
  THEN SubSeq(line, RunEnd(line, Len(L_Connected_on) + 1, WS), Len(line))
  ELSE line

\* -------------------------------------------------------------------------
\* Bounds and inputs
\* -------------------------------------------------------------------------

\* most pages of a document
MaxPages == 2

\* most raw lines of a document, over all its pages
MaxLines == 3

\* longest enumerated input of the splitter
MaxStr == 6

\* raw lines as pdfplumber may hand them over
RL_name == <<"J", "o">>
RL_body == <<"S", "r", " ", "M", "e", "s", "s", "a", "g", "e", " ", "E", "n", "g", " ", "@", " ", "C", "o">>
RL_date == <<"C", "o", "n", "n", "e", "c", "t", "e", "d", " ", "o", "n", " ", "5", "/", "1">>
RL_date_lc == <<"c", "o", "n", "n", "e", "c", "t", "e", "d", " ", "o", "n", " ", "5", "/", "1">>
RL_msg_sort == <<"M", "e", "s", "s", "a", "g", "e", " ", "S", "o", "r", "t", " ", "b", "y", ":", " ", "x">>
RL_msg_footer == <<"M", "e", "s", "s", "a", "g", "e", " ", "1", " ", "o", "f", " ", "1", " ", "8", "/", "1", " ", "P", "M">>
RL_count == <<"5", " ", "c", "o", "n", "n", "e", "c", "t", "i", "o", "n", "s">>

RawLinePool ==
  {RL_name, RL_body, RL_date, RL_date_lc, RL_msg_sort, RL_msg_footer,
   RL_count}

\* splitter inputs: every string over SplitAlphabet up to MaxStr characters,
\* and longer examples
SplitAlphabet == {"a", "t", "@", " ", "\t", "|"}

EX_night_shift == <<"E", "n", "g", "i", "n", "e", "e", "r", " ", "a", "t", " ", "D", "a", "t", "a", "C", "o", " ", "a", "t", " ", "N", "i", "g", "h", "t", " ", "S", "h", "i", "f", "t">>
EX_at_before_sign == <<"a", " ", "a", "t", " ", "t", " ", "@", " ", "a", " ", "@", " ", "t">>
EX_tab_sign == <<"a", "\t", "@", " ", "a", " ", "a", "t", " ", "a">>

SplitExamples == {EX_night_shift, EX_at_before_sign, EX_tab_sign}

\* -------------------------------------------------------------------------
\* State
\* -------------------------------------------------------------------------

VARIABLES
  pages,       \* pdf.pages: per page, the raw lines of its text
  p,           \* pages the for loop has taken
  lines,       \* the sanitized lines of the current page
  i,           \* index into lines (0-based, as in the code)
  name,        \* name of the record being built
  buf,         \* body buffer of the record being built
  rows,        \* the output list
  pc,          \* "NextPage", "ExpectName", "AccumulatingBody", "Done"
  candidates,  \* lines taken as a name so far, over all pages
  tcIn,        \* splitter run: the argument
  tcOut,       \* splitter run: the returned pair
  spc          \* splitter run: "idle", "call", "returned"

vars == <<pages, p, lines, i, name, buf, rows, pc, candidates, tcIn, tcOut, spc>>

segVars == <<pages, p, lines, i, name, buf, rows, pc, candidates>>
splitVars == <<tcIn, tcOut, spc>>

\* the cuts that divide n lines into np pages
Cuts(n, np) ==
  {c \in [0..np -> 0..n] :
     /\ c[0] = 0
     /\ c[np] = n
     /\ \A k \in 1..np : c[k - 1] <= c[k]}

\* the document that holds the lines of flat, divided at the cuts c
Document(flat, np, c) == [k \in 1..np |-> SubSeq(flat, c[k - 1] + 1, c[k])]

\* (page.extract_text() or "").split("\n"): a page without text gives [""]
PageLines(page) == IF page = << >> THEN << << >> >> ELSE page

SegIdle ==
  /\ pages = << >>
  /\ p = 0
  /\ lines = << >>
  /\ i = 0
  /\ name = << >>
  /\ buf = << >>
  /\ rows = << >>
  /\ pc = "Done"
  /\ candidates = 0

SplitIdle ==
  /\ tcIn = << >>
  /\ tcOut = << << >>, << >> >>
  /\ spc = "idle"

\* a document of at most MaxPages pages and MaxLines raw lines
Init ==
  /\ \E n \in 0..MaxLines, np \in 0..MaxPages :
       \E flat \in [1..n -> RawLinePool], c \in Cuts(n, np) :
         pages = Document(flat, np, c)
  /\ p = 0
  /\ lines = << >>
  /\ i = 0
  /\ name = << >>
  /\ buf = << >>
  /\ rows = << >>
  /\ pc = "NextPage"
  /\ candidates = 0
  /\ SplitIdle

\* -------------------------------------------------------------------------
\* extract_from_pdf
\* -------------------------------------------------------------------------

\* the final check on name
SanityReject(nm) ==
  \/ nm = << >>
  \/ HEADER_PATTERNS(0, nm)
  \/ FOOTER_PATTERN(nm)

\* rows after the candidate record went through the final check
Emit(rws, nm, tc, date_connected) ==
  IF SanityReject(nm) THEN rws
  ELSE Append(rws, <<nm, tc[1], tc[2], date_connected>>)

\* StartPage with i = 0 set once, before the page loop
StartPage_no_reset ==
  /\ pc = "NextPage"
  /\ p < Len(pages)
  /\ p' = p + 1
  /\ lines' = drop_header_footer_and_message(PageLines(pages[p + 1]))
  /\ pc' = "ExpectName"
  /\ UNCHANGED <<pages, i, name, buf, rows, candidates, splitVars>>

\* for page in pdf.pages: text, lines, sanitizer, i = 0
StartPage ==
  /\ pc = "NextPage"
  /\ p < Len(pages)
  /\ p' = p + 1
  /\ lines' = drop_header_footer_and_message(PageLines(pages[p + 1]))
  /\ i' = 0
  /\ pc' = "ExpectName"
  /\ UNCHANGED <<pages, name, buf, rows, candidates, splitVars>>

\* SkipStrayDate without the check for a leading date: the line is the name
SkipStrayDate_as_name ==
  /\ pc = "ExpectName"
  /\ i < Len(lines)
  /\ CONNECTED_ON(lines[i + 1])
  /\ name' = Strip(lines[i + 1])
  /\ i' = i + 1
  /\ buf' = << >>
  /\ pc' = "AccumulatingBody"
  /\ candidates' = candidates + 1
  /\ UNCHANGED <<pages, p, lines, rows, splitVars>>

\* a 'Connected on' line where a name is expected
SkipStrayDate ==
  /\ pc = "ExpectName"
  /\ i < Len(lines)
  /\ CONNECTED_ON(lines[i + 1])
  /\ i' = i + 1
  /\ UNCHANGED <<pages, p, lines, name, buf, rows, pc, candidates, splitVars>>

\* the next non-date line is the name
TakeName ==
  /\ pc = "ExpectName"
  /\ i < Len(lines)
  /\ ~CONNECTED_ON(lines[i + 1])
  /\ name' = Strip(lines[i + 1])
  /\ i' = i + 1
  /\ buf' = << >>
  /\ pc' = "AccumulatingBody"
  /\ candidates' = candidates + 1
  /\ UNCHANGED <<pages, p, lines, rows, splitVars>>

\* one turn of the inner while loop
AccumulateBody ==
  /\ pc = "AccumulatingBody"
  /\ i < Len(lines)
  /\ ~CONNECTED_ON(lines[i + 1])
  /\ buf' = Append(buf, lines[i + 1])
  /\ i' = i + 1
  /\ UNCHANGED <<pages, p, lines, name, rows, pc, candidates, splitVars>>

\* CloseWithDate reading the date one line too early, from lines[i - 1]
CloseWithDate_prev_line ==
  /\ pc = "AccumulatingBody"
  /\ i < Len(lines)
  /\ CONNECTED_ON(lines[i + 1])
  /\ rows' = Emit(rows, name, split_title_company(Strip(Join(buf))),
                  Strip(SubConnectedOn(lines[i])))
  /\ i' = i + 1
  /\ pc' = "ExpectName"
  /\ UNCHANGED <<pages, p, lines, name, buf, candidates, splitVars>>

\* the inner loop stopped at a 'Connected on' line
CloseWithDate ==
  /\ pc = "AccumulatingBody"
  /\ i < Len(lines)
  /\ CONNECTED_ON(lines[i + 1])
  /\ rows' = Emit(rows, name, split_title_company(Strip(Join(buf))),
                  Strip(SubConnectedOn(lines[i + 1])))
  /\ i' = i + 1
  /\ pc' = "ExpectName"
  /\ UNCHANGED <<pages, p, lines, name, buf, candidates, splitVars>>

\* the inner loop stopped at the end of the page's lines
CloseAtEnd ==
  /\ pc = "AccumulatingBody"
  /\ i >= Len(lines)
  /\ rows' = Emit(rows, name, split_title_company(Strip(Join(buf))), << >>)
  /\ pc' = "ExpectName"
  /\ UNCHANGED <<pages, p, lines, i, name, buf, candidates, splitVars>>

\* EndPage that flushes the last record once more when the page ends
EndPage_flush ==
  /\ pc = "ExpectName"
  /\ i >= Len(lines)
  /\ rows' = Emit(rows, name, split_title_company(Strip(Join(buf))), << >>)
  /\ pc' = "NextPage"
  /\ UNCHANGED <<pages, p, lines, i, name, buf, candidates, splitVars>>

\* the outer while loop ends: on to the next page
EndPage ==
  /\ pc = "ExpectName"
  /\ i >= Len(lines)
  /\ pc' = "NextPage"
  /\ UNCHANGED <<pages, p, lines, i, name, buf, rows, candidates, splitVars>>

\* return rows
Return ==
  /\ pc = "NextPage"
  /\ p = Len(pages)
  /\ pc' = "Done"
  /\ UNCHANGED <<pages, p, lines, i, name, buf, rows, candidates, splitVars>>

Next ==
  \/ StartPage
  \/ SkipStrayDate
  \/ TakeName
  \/ AccumulateBody
  \/ CloseWithDate
  \/ CloseAtEnd
  \/ EndPage
  \/ Return

Spec == Init /\ [][Next]_vars

\* -------------------------------------------------------------------------
\* _split_title_company on its own
\* -------------------------------------------------------------------------

SplitInputs ==
  SplitExamples \cup UNION {[1..n -> SplitAlphabet] : n \in 0..MaxStr}

InitSplit ==
  /\ SegIdle
  /\ tcIn \in SplitInputs
  /\ tcOut = << << >>, << >> >>
  /\ spc = "call"

CallSplit ==
  /\ spc = "call"
  /\ tcOut' = split_title_company(tcIn)
  /\ spc' = "returned"
  /\ UNCHANGED <<tcIn, segVars>>

NextSplit == CallSplit

SpecSplit == InitSplit /\ [][NextSplit]_vars

\* -------------------------------------------------------------------------
\* Properties
\* -------------------------------------------------------------------------

\* x occurs in s as a contiguous substring
IsSubstr(x, s) ==
  \/ x = << >>
  \/ \E k \in 1..(Len(s) - Len(x) + 1) : LitAt(s, k, x)

\* sep occurs in s
Occurs(s, sep) == \E k \in 1..Len(s) : LitAt(s, k, sep)

\* s matches one of the header, footer or noise patterns
IsNoise(s) == (\E n \in 0..2 : HEADER_PATTERNS(n, s)) \/ FOOTER_PATTERN(s)

\* the record a step appended
NewRow == rows'[Len(rows')]

\* the step appended a record
Emitted == Len(rows') = Len(rows) + 1

\* C1: every returned record has a non-empty name that matches none of the
\* header, footer and noise patterns, also when a 'Message' token was
\* stripped from the raw line.
C1_NameIsNeverNoise ==
  \A r \in 1..Len(rows) : rows[r][1] # << >> /\ ~IsNoise(rows[r][1])

\* C2: the sanitizer is idempotent: a second pass over the sanitized lines of
\* a page gives the same lines.
C2_SanitizerIdempotent ==
  drop_header_footer_and_message(lines) = lines

\* the remainder of a 'Connected on' line after the prefix, whatever its case
AfterPrefix(line) ==
  SubSeq(line, RunEnd(line, Len(L_Connected_on) + 1, WS), Len(line))

\* C3: a record closed by a 'Connected on' line has as connected_date the
\* trimmed remainder of that line after the prefix, whatever the letter case
\* of the prefix; the prefix does not stay in connected_date.
C3_DateIsRemainderAfterPrefix ==
  [][(pc = "AccumulatingBody" /\ i < Len(lines) /\ Emitted)
       => NewRow[4] = Strip(AfterPrefix(lines[i + 1]))]_vars

\* C4 as stated: for an input that contains neither ' @ ' nor ' at ', title is
\* the trimmed whole input and company is empty.
C4_TitleIsTrimmedInput ==
  (spc = "returned" /\ ~Occurs(tcIn, SEP_AT_SIGN) /\ ~Occurs(tcIn, SEP_AT_WORD))
    => tcOut = <<Strip(tcIn), << >> >>

\* C4, amended: for an input whose whitespace-normalized form (each run of
\* whitespace replaced by one space, then trimmed) contains neither ' @ ' nor
\* ' at ', title is that normalized form and company is empty.
C4_TitleIsNormalizedInput ==
  LET tc == Strip(CollapseWS(tcIn))
  IN  (spc = "returned" /\ ~Occurs(tc, SEP_AT_SIGN) /\ ~Occurs(tc, SEP_AT_WORD))
        => tcOut = <<tc, << >> >>

\* an input without separator whose words a tab or several spaces divide
\* came back as a title
C4_Witness ==
  LET tc == Strip(CollapseWS(tcIn))
  IN  /\ spc = "returned"
      /\ ~Occurs(tc, SEP_AT_SIGN)
      /\ ~Occurs(tc, SEP_AT_WORD)
      /\ tc # Strip(tcIn)
      /\ tcOut[1] = tc
      /\ tcOut[2] = << >>

\* what the record being closed was read from: the body lines and, when there
\* is one, the date line, joined by single spaces
RecordSource ==
  Join(IF i < Len(lines) THEN Append(buf, lines[i + 1]) ELSE buf)

\* C5 as stated: title, company and connected_date of an emitted record are
\* each a contiguous substring of the record's space-joined sanitized lines.
C5_FieldsAreSubstrings ==
  [][Emitted =>
       /\ IsSubstr(NewRow[2], RecordSource)
       /\ IsSubstr(NewRow[3], RecordSource)
       /\ IsSubstr(NewRow[4], RecordSource)]_vars

\* C5, amended: title and company of an emitted record are each a contiguous
\* substring of the whitespace-normalized space-joined body lines, and
\* connected_date is a contiguous substring of the date line (empty when the
\* record has none).
C5_FieldsAreSubstringsOfNormalized ==
  [][Emitted =>
       /\ IsSubstr(NewRow[2], Strip(CollapseWS(Join(buf))))
       /\ IsSubstr(NewRow[3], Strip(CollapseWS(Join(buf))))
       /\ IsSubstr(NewRow[4], IF i < Len(lines) THEN lines[i + 1] ELSE << >>)]_vars

\* a record with a title of two words, a company and a date was emitted
C5_Witness ==
  \E r \in 1..Len(rows) :
    /\ rows[r][2] = <<"S", "r", " ", "E", "n", "g">>
    /\ rows[r][3] = <<"C", "o">>
    /\ rows[r][4] = <<"5", "/", "1">>

EX_night_title == <<"E", "n", "g", "i", "n", "e", "e", "r">>
EX_night_company == <<"D", "a", "t", "a", "C", "o", " ", "a", "t", " ", "N", "i", "g", "h", "t", " ", "S", "h", "i", "f", "t">>

\* the pair that a split of tc at the first occurrence of sep gives
SplitAtFirst(tc, sep, out) ==
  \E k \in 1..Len(tc) :
    /\ LitAt(tc, k, sep)
    /\ \A j \in 1..(k - 1) : ~LitAt(tc, j, sep)
    /\ out = <<TrimField(SubSeq(tc, 1, k - 1)),
               TrimField(SubSeq(tc, k + Len(sep), Len(tc)))>>

\* C6: the splitter splits at one point: the first ' @ ' when the normalized
\* string has one (also when an ' at ' stands before it), otherwise the first
\* ' at '; what follows, later separators included, is the company, so
\* 'Engineer at DataCo at Night Shift' gives ('Engineer', 'DataCo at Night Shift').
C6_SplitsAtFirstSeparator ==
  LET tc == Strip(CollapseWS(tcIn))
  IN  spc = "returned" =>
        /\ Occurs(tc, SEP_AT_SIGN) => SplitAtFirst(tc, SEP_AT_SIGN, tcOut)
        /\ (~Occurs(tc, SEP_AT_SIGN) /\ Occurs(tc, SEP_AT_WORD))
             => SplitAtFirst(tc, SEP_AT_WORD, tcOut)
        /\ tcIn = EX_night_shift => tcOut = <<EX_night_title, EX_night_company>>

\* 'a at t @ a @ t' was split at its first ' @ ', after the ' at ' and before
\* the second ' @ '
C6_Witness ==
  /\ spc = "returned"
  /\ tcIn = EX_at_before_sign
  /\ tcOut = << <<"a", " ", "a", "t", " ", "t">>, <<"a", " ", "@", " ", "t">> >>

\* C7: when a page's lines end during body accumulation, a record is emitted
\* for the captured name, with connected_date empty and title and company
\* split from the accumulated body.
C7_RecordAtEndOfPage ==
  [][(pc = "AccumulatingBody" /\ i >= Len(lines) /\ pc' # pc)
       => rows' = Append(rows, <<name,
                                 split_title_company(Strip(Join(buf)))[1],
                                 split_title_company(Strip(Join(buf)))[2],
                                 << >> >>)]_vars

\* C8: where a name is expected, a 'Connected on' line is skipped: no record,
\* not a name, not body text, and the next line is looked at in the same
\* state; a line that is no date is then taken as the name.
C8_StrayDateSkipped ==
  [][(pc = "ExpectName" /\ i < Len(lines)) =>
       IF CONNECTED_ON(lines[i + 1])
       THEN /\ pc' = "ExpectName"
            /\ i' = i + 1
            /\ UNCHANGED <<rows, name, buf, lines, p>>
       ELSE /\ pc' = "AccumulatingBody"
            /\ name' = lines[i + 1]
            /\ buf' = << >>
            /\ rows' = rows]_vars

\* the first line of a page was a date and was passed over: a name is
\* still expected and nothing was emitted
C8_Witness ==
  /\ pc = "ExpectName"
  /\ i = 1
  /\ Len(lines) >= 2
  /\ CONNECTED_ON(lines[1])
  /\ ~CONNECTED_ON(lines[2])
  /\ rows = << >>

\* C9: there are never more records than lines taken as a name, and a record
\* is emitted only for a name line that stands before its body lines and
\* its date line on the page being read.
C9_RecordsHaveNameLines ==
  [][/\ Len(rows') <= candidates'
     /\ rows' # rows =>
          /\ pc = "AccumulatingBody"
          /\ Emitted
          /\ SubSeq(rows', 1, Len(rows)) = rows
          /\ i - Len(buf) >= 1
          /\ NewRow[1] = lines[i - Len(buf)]
          /\ buf = SubSeq(lines, i - Len(buf) + 1, i)]_vars

\* two names were taken on the way, one record came out
C9_Witness ==
  /\ pc = "Done"
  /\ candidates = 2
  /\ Len(rows) = 1

\* C10: a page starts with the index at 0 and a name expected, and leaves the
\* output as it is; a record closed at the end of a page has no date, and a
\* record's name, body and date are lines of the page being read. A name that
\* ends page 1 with its 'Connected on' line leading page 2 is emitted without
\* date, and the date line yields nothing.
C10_StateStaysOnPage ==
  [][/\ p' # p =>
          /\ pc = "NextPage"
          /\ pc' = "ExpectName"
          /\ i' = 0
          /\ rows' = rows
          /\ lines' = drop_header_footer_and_message(PageLines(pages[p']))
     /\ rows' # rows =>
          /\ p' = p
          /\ lines' = lines
          /\ i - Len(buf) >= 1
          /\ NewRow[1] = lines[i - Len(buf)]
          /\ buf = SubSeq(lines, i - Len(buf) + 1, i)
          /\ i >= Len(lines) => NewRow[4] = << >>
          /\ i < Len(lines) => IsSubstr(NewRow[4], lines[i + 1])
     /\ (pc' = "Done" /\ pages = << <<RL_name>>, <<RL_date>> >>)
          => rows' = << <<RL_name, << >>, << >>, << >> >> >>]_vars

\* the name of page 1 came out without date although page 2 starts with a date
C10_Witness ==
  /\ pc = "Done"
  /\ pages = << <<RL_name>>, <<RL_date>> >>
  /\ rows = << <<RL_name, << >>, << >>, << >> >> >>

====
